---- MODULE Spec2Model ----
(***************************************************************************)
(* A model of tempo.py: the loader (load_variant), the emotion classifier   *)
(* (detect_emotion), the dataset assembler (prepare_full_dataframe), the    *)
(* zone assigner (assign_zones), the aggregators and the __main__ script.   *)
(*                                                                          *)
(* Text is a sequence of characters.  An ASCII character is the string of   *)
(* that character; a Cyrillic character is "uXXXX", its code point.         *)
(* A data frame is [columns, rows]: columns is the sequence of column       *)
(* names, a row is [idx, cells] with idx the index label and cells the      *)
(* sequence of cell values aligned with columns.  A cell is NaN, Text(s)    *)
(* or a number (an exact rational).                                         *)
(***************************************************************************)
EXTENDS Integers, Sequences, FiniteSets, TLC

VARIABLES pc, sources, rus, bil, kab, df_all, df_z, df_zz,
          overall_table, zone_table, pivot_summary, out, err, arg_name, ret_emotion

vars == <<pc, sources, rus, bil, kab, df_all, df_z, df_zz,
          overall_table, zone_table, pivot_summary, out, err, arg_name, ret_emotion>>

-----------------------------------------------------------------------------
(* String literals of tempo.py.                                             *)

persent_duration == <<"p", "e", "r", "s", "e", "n", "t", "_", "d", "u", "r", "a", "t", "i", "o", "n">>
percent_duration == <<"p", "e", "r", "c", "e", "n", "t", "_", "d", "u", "r", "a", "t", "i", "o", "n">>
totaldur == <<"t", "o", "t", "a", "l", "d", "u", "r">>
total_duration == <<"t", "o", "t", "a", "l", "_", "d", "u", "r", "a", "t", "i", "o", "n">>
transcription == <<"t", "r", "a", "n", "s", "c", "r", "i", "p", "t", "i", "o", "n">>
transcription_phonemes == <<"t", "r", "a", "n", "s", "c", "r", "i", "p", "t", "i", "o", "n", "_", "p", "h", "o", "n", "e", "m", "e", "s">>
filename == <<"f", "i", "l", "e", "n", "a", "m", "e">>
file_name == <<"f", "i", "l", "e", "_", "n", "a", "m", "e">>
variant == <<"v", "a", "r", "i", "a", "n", "t">>
emotion == <<"e", "m", "o", "t", "i", "o", "n">>
duration == <<"d", "u", "r", "a", "t", "i", "o", "n">>
dur_s == <<"d", "u", "r", "_", "s">>
v_index == <<"v", "_", "i", "n", "d", "e", "x">>
zone == <<"z", "o", "n", "e">>
consonant == <<"c", "o", "n", "s", "o", "n", "a", "n", "t">>

\* "russkij variant", "russkaya rech' bilingva", "kabardinskij yazyk"
RUS_LABEL == <<"u0440", "u0443", "u0441", "u0441", "u043a", "u0438", "u0439", " ", "u0432", "u0430", "u0440", "u0438", "u0430", "u043d", "u0442">>
BIL_LABEL == <<"u0440", "u0443", "u0441", "u0441", "u043a", "u0430", "u044f", " ", "u0440", "u0435", "u0447", "u044c", " ", "u0431", "u0438", "u043b", "u0438", "u043d", "u0433", "u0432", "u0430">>
KAB_LABEL == <<"u043a", "u0430", "u0431", "u0430", "u0440", "u0434", "u0438", "u043d", "u0441", "u043a", "u0438", "u0439", " ", "u044f", "u0437", "u044b", "u043a">>

\* the substrings detect_emotion looks for: "gnev", "radost", "nejtr", Latin "neutr"
sub_gnev == <<"u0433", "u043d", "u0435", "u0432">>
sub_radost == <<"u0440", "u0430", "u0434", "u043e", "u0441", "u0442">>
sub_nejtr == <<"u043d", "u0435", "u0439", "u0442", "u0440">>
sub_neutr == <<"n", "e", "u", "t", "r">>

\* the values detect_emotion returns: "gnev", "radost'", "nejtral'naya", "drugoe"
EMO_ANGER == <<"u0433", "u043d", "u0435", "u0432">>
EMO_JOY == <<"u0440", "u0430", "u0434", "u043e", "u0441", "u0442", "u044c">>
EMO_NEUTRAL == <<"u043d", "u0435", "u0439", "u0442", "u0440", "u0430", "u043b", "u044c", "u043d", "u0430", "u044f">>
EMO_OTHER == <<"u0434", "u0440", "u0443", "u0433", "u043e", "u0435">>

\* the values zone_for_row returns: "nachalo", "konec", "seredina"
ZONE_START == <<"u043d", "u0430", "u0447", "u0430", "u043b", "u043e">>
ZONE_END == <<"u043a", "u043e", "u043d", "u0435", "u0446">>
ZONE_MIDDLE == <<"u0441", "u0435", "u0440", "u0435", "u0434", "u0438", "u043d", "u0430">>

\* str(float("nan"))
nan_text == <<"n", "a", "n">>

-----------------------------------------------------------------------------
(* Python str operations, character by character.                           *)

\* the characters of the model in code point order
Alphabet == <<"\t", " ", ".", "1", "2", "A", "C", "D", "E", "F", "I", "N", "O", "P", "R", "S", "T", "U", "V", "_",
              "a", "c", "d", "e", "f", "h", "i", "l", "m", "n", "o", "p", "r", "s", "t", "u", "v", "w", "x", "z",
              "u0412", "u0413", "u0415", "u0419", "u041d", "u0420", "u0422",
              "u0430", "u0431", "u0432", "u0433", "u0434", "u0435", "u0437", "u0438", "u0439", "u043a", "u043b",
              "u043d", "u043e", "u0440", "u0441", "u0442", "u0443", "u0446", "u0447", "u044b", "u044c", "u044f">>

UpperChars == <<"A", "C", "D", "E", "F", "I", "N", "O", "P", "R", "S", "T", "U", "V", "u0412", "u0413", "u0415", "u0419", "u041d", "u0420", "u0422">>
LowerChars == <<"a", "c", "d", "e", "f", "i", "n", "o", "p", "r", "s", "t", "u", "v", "u0432", "u0433", "u0435", "u0439", "u043d", "u0440", "u0442">>

Ord(c) == CHOOSE i \in 1..Len(Alphabet) : Alphabet[i] = c

LowerChar(c) ==
    IF \E i \in 1..Len(UpperChars) : UpperChars[i] = c
    THEN LowerChars[CHOOSE i \in 1..Len(UpperChars) : UpperChars[i] = c]
    ELSE c

\* s.lower()
Lower(s) == [i \in 1..Len(s) |-> LowerChar(s[i])]

IsSpace(c) == c \in {" ", "\t"}

\* s.strip(): leading and trailing whitespace removed
Strip(s) ==
    LET keep == {i \in 1..Len(s) : ~IsSpace(s[i])}
    IN IF keep = {} THEN <<>>
       ELSE LET lo == CHOOSE i \in keep : \A j \in keep : i <= j
                hi == CHOOSE i \in keep : \A j \in keep : j <= i
            IN SubSeq(s, lo, hi)

\* s.replace(" ", "_")
ReplaceSpace(s) == [i \in 1..Len(s) |-> IF s[i] = " " THEN "_" ELSE s[i]]

\* sub in s
Contains(s, sub) ==
    \E i \in 1..(Len(s) - Len(sub) + 1) : SubSeq(s, i, i + Len(sub) - 1) = sub

\* a < b for str: the first differing character decides, a proper prefix is smaller
RECURSIVE FirstDiff(_, _, _)
\* the first position from i on where a and b differ, 0 when one ends before
FirstDiff(a, b, i) ==
    IF i > Len(a) \/ i > Len(b) THEN 0
    ELSE IF a[i] # b[i] THEN i
    ELSE FirstDiff(a, b, i + 1)

StrLess(a, b) ==
    LET i == FirstDiff(a, b, 1)
    IN IF i = 0 THEN Len(a) < Len(b) ELSE Ord(a[i]) < Ord(b[i])

RECURSIVE Concat(_)
Concat(ss) == IF ss = <<>> THEN <<>> ELSE Head(ss) \o Concat(Tail(ss))

-----------------------------------------------------------------------------
(* Cells.                                                                   *)

NaN == [kind |-> "nan"]
Text(s) == [kind |-> "text", s |-> s]
None == [kind |-> "none"]

IsText(c) == c.kind = "text"
IsNum(c) == c.kind = "num"

RECURSIVE GCD(_, _)
GCD(a, b) == IF b = 0 THEN a ELSE GCD(b, a % b)

\* the number n/d, in lowest terms (n >= 0, d > 0)
Rat(n, d) == LET g == GCD(n, d) IN [kind |-> "num", n |-> n \div g, d |-> d \div g]
Num(n) == Rat(n, 1)

\* arithmetic on cells: a missing operand gives a missing result
CellMul(a, b) == IF IsNum(a) /\ IsNum(b) THEN Rat(a.n * b.n, a.d * b.d) ELSE NaN
CellDiv(a, b) == IF IsNum(a) /\ IsNum(b) THEN Rat(a.n * b.d, a.d * b.n) ELSE NaN
CellAdd(a, b) == Rat(a.n * b.d + b.n * a.d, a.d * b.d)

-----------------------------------------------------------------------------
(* detect_emotion                                                           *)

\* str(name): the text itself, "nan" for a missing value
Str(c) == IF IsText(c) THEN c.s ELSE nan_text

\* the checks in another order: joy before anger
detect_emotion_joy_first(c) ==
    LET s == Lower(Str(c))
    IN IF Contains(s, sub_radost) THEN EMO_JOY
       ELSE IF Contains(s, sub_gnev) THEN EMO_ANGER
       ELSE IF Contains(s, sub_nejtr) \/ Contains(s, sub_neutr) THEN EMO_NEUTRAL
       ELSE EMO_OTHER

detect_emotion(c) ==
    LET s == Lower(Str(c))
    IN IF Contains(s, sub_gnev) THEN EMO_ANGER
       ELSE IF Contains(s, sub_radost) THEN EMO_JOY
       ELSE IF Contains(s, sub_nejtr) \/ Contains(s, sub_neutr) THEN EMO_NEUTRAL
       ELSE EMO_OTHER

-----------------------------------------------------------------------------
(* Data frames.                                                             *)

Range(f) == {f[i] : i \in DOMAIN f}

HasColumn(df, c) == \E i \in 1..Len(df.columns) : df.columns[i] = c

\* the position of column c: the first one of that name
ColIndex(df, c) ==
    CHOOSE i \in 1..Len(df.columns) :
        df.columns[i] = c /\ \A j \in 1..(i - 1) : df.columns[j] # c

\* df.rename(columns={old: new}): every column named old is renamed, the data stays
RenameColumn(df, old, new) ==
    [df EXCEPT !.columns = [i \in 1..Len(df.columns) |->
                              IF df.columns[i] = old THEN new ELSE df.columns[i]]]

\* df[c], one cell per row
Column(df, c) ==
    LET i == ColIndex(df, c) IN [r \in 1..Len(df.rows) |-> df.rows[r].cells[i]]

\* df[c] = vals, one value per row: an existing column is overwritten, a new one
\* is appended
SetColumn(df, c, vals) ==
    IF HasColumn(df, c)
    THEN [df EXCEPT !.rows = [r \in 1..Len(df.rows) |->
             [df.rows[r] EXCEPT !.cells =
                 [i \in 1..Len(df.columns) |->
                    IF df.columns[i] = c THEN vals[r] ELSE df.rows[r].cells[i]]]]]
    ELSE [columns |-> Append(df.columns, c),
          rows |-> [r \in 1..Len(df.rows) |->
                      [df.rows[r] EXCEPT !.cells = Append(@, vals[r])]]]

\* a scalar broadcast to every row
Broadcast(df, value) == [r \in 1..Len(df.rows) |-> value]

\* pd.read_excel(path): the table of the file, the rows labelled 0, 1, ...
read_excel(table) ==
    [columns |-> table.columns,
     rows |-> [r \in 1..Len(table.rows) |-> [idx |-> r - 1, cells |-> table.rows[r]]]]

-----------------------------------------------------------------------------
(* load_variant                                                             *)

\* c.strip().lower().replace(" ", "_")
NormalizeName(c) == ReplaceSpace(Lower(Strip(c)))

\* df.rename(columns=cols) with cols = {c: normalised c}
NormalizeColumns(df) ==
    [df EXCEPT !.columns = [i \in 1..Len(df.columns) |-> NormalizeName(df.columns[i])]]

\* the rewrite without its guard on the canonical name
rename_alias_unguarded(df, alias, canonical) ==
    IF HasColumn(df, alias) THEN RenameColumn(df, alias, canonical) ELSE df

\* one alias rewrite: only when the alias is there and the canonical name is not
rename_alias(df, alias, canonical) ==
    IF HasColumn(df, alias) /\ ~HasColumn(df, canonical)
    THEN RenameColumn(df, alias, canonical)
    ELSE df

\* the stamping that keeps an existing variant column
stamp_variant_if_absent(df, variant_label) ==
    IF HasColumn(df, variant) THEN df
    ELSE [columns |-> Append(df.columns, variant),
          rows |-> [r \in 1..Len(df.rows) |->
                      [df.rows[r] EXCEPT !.cells = Append(@, Text(variant_label))]]]

\* df["variant"] = variant_label
stamp_variant(df, variant_label) ==
    SetColumn(df, variant, Broadcast(df, Text(variant_label)))

load_variant(table, variant_label) ==
    LET df0 == NormalizeColumns(read_excel(table))
        df1 == rename_alias(df0, persent_duration, percent_duration)
        df2 == rename_alias(df1, totaldur, total_duration)
        df3 == rename_alias(df2, transcription, transcription_phonemes)
        df4 == rename_alias(df3, filename, file_name)
    IN stamp_variant(df4, variant_label)

-----------------------------------------------------------------------------
(* prepare_full_dataframe                                                   *)

\* the ValueError messages of tempo.py, by the column they name
ERR_TRANSCRIPTION == "ValueError: transcription_phonemes"
ERR_EMOTION == "ValueError: emotion or file_name"
ERR_PERCENT == "ValueError: percent_duration / persent_duration"
ERR_FILE_NAME == "ValueError: file_name"
\* numpy's ValueError: cannot call `vectorize` on size 0 inputs unless `otypes` is set
ERR_VECTORIZE == "ValueError: vectorize on size 0 inputs"
\* no exception
NO_ERROR == "no error"

RECURSIVE UnionColumns(_, _)
\* the columns of a concatenation: in order of first appearance
UnionColumns(cols, more) ==
    IF more = <<>> THEN cols
    ELSE UnionColumns(IF Head(more) \in Range(cols) THEN cols ELSE Append(cols, Head(more)),
                      Tail(more))

\* the rows of frame f laid out on columns cols, a missing column filled with NaN
Reindex(f, cols) ==
    [r \in 1..Len(f.rows) |->
        [f.rows[r] EXCEPT !.cells =
            [i \in 1..Len(cols) |->
                IF HasColumn(f, cols[i]) THEN f.rows[r].cells[ColIndex(f, cols[i])] ELSE NaN]]]

\* pd.concat([a, b, c], ignore_index=True)
concat(a, b, c) ==
    LET cols == UnionColumns(UnionColumns(a.columns, b.columns), c.columns)
        rows == Reindex(a, cols) \o Reindex(b, cols) \o Reindex(c, cols)
    IN [columns |-> cols,
        rows |-> [r \in 1..Len(rows) |-> [rows[r] EXCEPT !.idx = r - 1]]]

\* df[mask]: the rows whose mask is True, in order
FilterRows(df, mask) ==
    LET F[r \in 0..Len(df.rows)] ==
            IF r = 0 THEN <<>>
            ELSE IF mask[r] THEN Append(F[r - 1], df.rows[r]) ELSE F[r - 1]
    IN [df EXCEPT !.rows = F[Len(df.rows)]]

\* s.str.lower(): missing for a cell that is no text
StrLower(c) == IF IsText(c) THEN Text(Lower(c.s)) ELSE NaN

\* the duration rule with the two branches swapped
\* df["percent_duration"] / 100.0 * df["total_duration"]
DurFromTotal(df) ==
    LET p == Column(df, percent_duration)
        t == Column(df, total_duration)
    IN [r \in 1..Len(df.rows) |-> CellMul(CellDiv(p[r], Num(100)), t[r])]

\* the duration rule with the two branches swapped
derive_dur_s_duration_first(df) ==
    IF HasColumn(df, duration) THEN SetColumn(df, dur_s, Column(df, duration))
    ELSE IF HasColumn(df, total_duration) THEN SetColumn(df, dur_s, DurFromTotal(df))
    ELSE SetColumn(df, dur_s, Broadcast(df, NaN))

derive_dur_s(df) ==
    IF HasColumn(df, total_duration) THEN SetColumn(df, dur_s, DurFromTotal(df))
    ELSE IF HasColumn(df, duration) THEN SetColumn(df, dur_s, Column(df, duration))
    ELSE SetColumn(df, dur_s, Broadcast(df, NaN))

\* the percent_duration check replaced by a fill with missing values
check_percent_fill(df) ==
    IF HasColumn(df, percent_duration) THEN [err |-> NO_ERROR, df |-> df]
    ELSE [err |-> NO_ERROR, df |-> SetColumn(df, percent_duration, Broadcast(df, NaN))]

check_percent(df) ==
    IF HasColumn(df, percent_duration) THEN [err |-> NO_ERROR, df |-> df]
    ELSE [err |-> ERR_PERCENT, df |-> None]

\* the body of prepare_full_dataframe after the three loads
prepare_full_dataframe(rus_f, bil_f, kab_f) ==
    LET df0 == concat(rus_f, bil_f, kab_f)
        tr == Column(df0, transcription_phonemes)
        vowel == [r \in 1..Len(df0.rows) |-> StrLower(tr[r]) # Text(consonant)]
        df1 == FilterRows(df0, vowel)
        names == Column(df1, file_name)
        detected == [r \in 1..Len(df1.rows) |-> Text(detect_emotion(names[r]))]
        df2 == IF HasColumn(df1, emotion) THEN df1 ELSE SetColumn(df1, emotion, detected)
        checked == check_percent(df2)
    IN IF ~HasColumn(df0, transcription_phonemes)
       THEN [err |-> ERR_TRANSCRIPTION, df |-> None]
       ELSE IF ~HasColumn(df1, emotion) /\ ~HasColumn(df1, file_name)
       THEN [err |-> ERR_EMOTION, df |-> None]
       ELSE IF checked.err # NO_ERROR THEN checked
       ELSE [err |-> NO_ERROR, df |-> derive_dur_s(checked.df)]

-----------------------------------------------------------------------------
(* assign_zones                                                             *)

\* the group key (variant, emotion, file_name) of every row
Keys(df) ==
    LET v == Column(df, variant)
        e == Column(df, emotion)
        f == Column(df, file_name)
    IN [r \in 1..Len(df.rows) |-> <<v[r], e[r], f[r]>>]

\* groupby drops a row whose key has a missing component (dropna=True)
HasNaNKey(k) == \E i \in 1..Len(k) : k[i] = NaN

\* order of one sort column: text ascending, missing values last
CellLess(a, b) == a # NaN /\ a # b /\ (b = NaN \/ StrLess(a.s, b.s))

\* lexicographic order of the sort keys
KeyLess(k1, k2) ==
    /\ k1 # k2
    /\ \E i \in 1..Len(k1) :
          /\ \A j \in 1..(i - 1) : k1[j] = k2[j]
          /\ CellLess(k1[i], k2[i])

\* the rows in the order of df.sort_values(by=[variant, emotion, file_name]):
\* a stable sort, rows of equal key keep their order
SortedRows(df) ==
    LET n == Len(df.rows)
        key == Keys(df)
        pos == [i \in 1..n |-> 1 + Cardinality({j \in 1..n : KeyLess(key[j], key[i])
                                                      \/ (key[j] = key[i] /\ j < i)})]
    IN [p \in 1..n |-> df.rows[CHOOSE i \in 1..n : pos[i] = p]]

\* an unstable sort: rows of equal key come out in reverse order
sort_values_unstable(df) ==
    LET n == Len(df.rows)
        key == Keys(df)
        pos == [i \in 1..n |-> 1 + Cardinality({j \in 1..n : KeyLess(key[j], key[i])
                                                      \/ (key[j] = key[i] /\ j > i)})]
    IN [df EXCEPT !.rows = [p \in 1..n |-> df.rows[CHOOSE i \in 1..n : pos[i] = p]]]

sort_values(df) == [df EXCEPT !.rows = SortedRows(df)]

\* a count that starts at 0
cumcount_plus_one_from_zero(df) ==
    LET n == Len(df.rows)
        key == Keys(df)
    IN [i \in 1..n |->
          IF HasNaNKey(key[i]) THEN NaN
          ELSE Num(Cardinality({j \in 1..(i - 1) : key[j] = key[i]}))]

\* df.groupby([variant, emotion, file_name]).cumcount() + 1, one value per row:
\* the number of rows of the same group up to and including the row
cumcount_plus_one(df) ==
    LET n == Len(df.rows)
        key == Keys(df)
    IN [i \in 1..n |->
          IF HasNaNKey(key[i]) THEN NaN
          ELSE Num(1 + Cardinality({j \in 1..(i - 1) : key[j] = key[i]}))]

\* df.groupby([variant, emotion, file_name])["v_index"].transform("max")
transform_max(df) ==
    LET n == Len(df.rows)
        key == Keys(df)
        v == Column(df, v_index)
    IN [i \in 1..n |->
          IF HasNaNKey(key[i]) THEN NaN
          ELSE LET grp == {j \in 1..n : key[j] = key[i]}
               IN v[CHOOSE j \in grp : \A k \in grp : v[k].n <= v[j].n]]

\* a <= b and a > b on numbers: False when an operand is missing
CellLeq(a, b) == IsNum(a) /\ IsNum(b) /\ a.n * b.d <= b.n * a.d
CellGt(a, b) == IsNum(a) /\ IsNum(b) /\ a.n * b.d > b.n * a.d
CellSub(a, b) == IF IsNum(a) /\ IsNum(b) THEN Rat(a.n * b.d - b.n * a.d, a.d * b.d) ELSE NaN

\* the rule with the end test first
zone_for_row_end_first(row_count, row_index) ==
    IF CellGt(row_index, CellSub(row_count, Num(3))) THEN ZONE_END
    ELSE IF CellLeq(row_index, Num(3)) THEN ZONE_START
    ELSE ZONE_MIDDLE

zone_for_row(row_count, row_index) ==
    IF CellLeq(row_index, Num(3)) THEN ZONE_START
    ELSE IF CellGt(row_index, CellSub(row_count, Num(3))) THEN ZONE_END
    ELSE ZONE_MIDDLE

assign_zones(df) ==
    LET sorted == sort_values(df)
        df1 == SetColumn(sorted, v_index, cumcount_plus_one(sorted))
        counts == transform_max(df1)
        vi == Column(df1, v_index)
        zn == [r \in 1..Len(df1.rows) |-> Text(zone_for_row(counts[r], vi[r]))]
    IN IF ~HasColumn(df, file_name) THEN [err |-> ERR_FILE_NAME, df |-> None]
       ELSE IF Len(df.rows) = 0 THEN [err |-> ERR_VECTORIZE, df |-> None]
       ELSE [err |-> NO_ERROR, df |-> SetColumn(df1, zone, zn)]

\* the frame of the caller after a call that sorts and annotates it in place
assign_zones_argument_inplace(df) ==
    IF assign_zones(df).err = NO_ERROR THEN assign_zones(df).df ELSE df

\* the frame of the caller after assign_zones(df): sort_values returns a new frame
\* and the columns are added to its copy
assign_zones_argument(df) == df

-----------------------------------------------------------------------------
(* compute_overall_table, compute_zone_table, the pivot.  A table is the    *)
(* set of its rows; the standard deviation is kept as its square, the       *)
(* sample variance.                                                         *)

Table(rows) == [kind |-> "table", rows |-> rows]

RECURSIVE SumCells(_)
SumCells(cs) == IF cs = <<>> THEN Num(0) ELSE CellAdd(Head(cs), SumCells(Tail(cs)))

\* mean: missing values are skipped; missing when no value is left
Mean(cs) ==
    LET nums == SelectSeq(cs, IsNum)
    IN IF nums = <<>> THEN NaN ELSE CellDiv(SumCells(nums), Num(Len(nums)))

\* std squared, with the n - 1 denominator; missing for fewer than two values
Variance(cs) ==
    LET nums == SelectSeq(cs, IsNum)
        m == Mean(cs)
        sq == [i \in 1..Len(nums) |-> CellMul(CellSub(nums[i], m), CellSub(nums[i], m))]
    IN IF Len(nums) < 2 THEN NaN ELSE CellDiv(SumCells(sq), Num(Len(nums) - 1))

\* df.groupby(by).agg(...): one row per key present, rows of a missing key dropped
GroupAgg(df, by) ==
    LET bycol == [i \in 1..Len(by) |-> Column(df, by[i])]
        key == [r \in 1..Len(df.rows) |-> [i \in 1..Len(by) |-> bycol[i][r]]]
        keys == Range(key)
        pick(k, vals) == LET F[r \in 0..Len(vals)] ==
                                 IF r = 0 THEN <<>>
                                 ELSE IF key[r] = k THEN Append(F[r - 1], vals[r]) ELSE F[r - 1]
                         IN F[Len(vals)]
        col(k, c) == pick(k, Column(df, c))
    IN Table({IF HasColumn(df, dur_s)
        THEN [key |-> k,
              mean_percent |-> Mean(col(k, percent_duration)),
              var_percent |-> Variance(col(k, percent_duration)),
              mean_dur_s |-> Mean(col(k, dur_s)),
              var_dur_s |-> Variance(col(k, dur_s))]
        ELSE [key |-> k,
              mean_percent |-> Mean(col(k, percent_duration)),
              var_percent |-> Variance(col(k, percent_duration))]
        : k \in {k \in keys : ~HasNaNKey(k)}})

compute_overall_table(df) == GroupAgg(df, <<emotion, variant>>)

\* compute_zone_table after its call of assign_zones
zone_table_of(dfz) == GroupAgg(dfz, <<emotion, variant, zone>>)

\* zone_table.pivot_table(index=[emotion, zone], columns=variant, values=mean percent)
pivot_table(zt) ==
    LET zones == zt.rows
        rows == {<<z.key[1], z.key[3]>> : z \in zones}
        variants == {z.key[2] : z \in zones}
    IN Table({[index |-> ix,
         cells |-> [v \in variants |->
                      IF \E z \in zones : z.key = <<ix[1], v, ix[2]>>
                      THEN (CHOOSE z \in zones : z.key = <<ix[1], v, ix[2]>>).mean_percent
                      ELSE NaN]]
        : ix \in rows})

-----------------------------------------------------------------------------
(* The input files: column headers as written in a spreadsheet, and rows.   *)

RAW_File_Name == <<"F", "i", "l", "e", " ", "N", "a", "m", "e">>
RAW_FileName == <<"F", "i", "l", "e", "N", "a", "m", "e">>
RAW_file_name == <<"f", "i", "l", "e", "_", "n", "a", "m", "e">>
RAW_Transcription == <<"T", "r", "a", "n", "s", "c", "r", "i", "p", "t", "i", "o", "n">>
RAW_Transcription_Phonemes == <<"T", "r", "a", "n", "s", "c", "r", "i", "p", "t", "i", "o", "n", " ", "P", "h", "o", "n", "e", "m", "e", "s">>
RAW_transcription_phonemes == <<"t", "r", "a", "n", "s", "c", "r", "i", "p", "t", "i", "o", "n", "_", "p", "h", "o", "n", "e", "m", "e", "s">>
RAW_Persent_Duration == <<"P", "e", "r", "s", "e", "n", "t", " ", "D", "u", "r", "a", "t", "i", "o", "n">>
RAW_Percent_Duration == <<" ", "P", "e", "r", "c", "e", "n", "t", " ", "D", "u", "r", "a", "t", "i", "o", "n", " ">>
RAW_percent_duration == <<"p", "e", "r", "c", "e", "n", "t", "_", "d", "u", "r", "a", "t", "i", "o", "n">>
RAW_TotalDur == <<"T", "o", "t", "a", "l", "D", "u", "r">>
RAW_Total_Duration == <<"T", "o", "t", "a", "l", " ", "D", "u", "r", "a", "t", "i", "o", "n">>
RAW_Duration == <<"D", "u", "r", "a", "t", "i", "o", "n">>
RAW_duration == <<"d", "u", "r", "a", "t", "i", "o", "n">>
RAW_Emotion == <<"E", "m", "o", "t", "i", "o", "n">>
RAW_Variant == <<"V", "a", "r", "i", "a", "n", "t">>
RAW_tab_file_name == <<"\t", "f", "i", "l", "e", " ", "n", "a", "m", "e">>
RAW_transcription == <<"t", "r", "a", "n", "s", "c", "r", "i", "p", "t", "i", "o", "n">>
RAW_PERSENT_DURATION == <<"P", "E", "R", "S", "E", "N", "T", "_", "D", "U", "R", "A", "T", "I", "O", "N">>
RAW_totaldur == <<"t", "o", "t", "a", "l", "d", "u", "r", " ">>

FILE_u1 == <<"u", "1">>
FILE_u2 == <<"u", "2">>
FILE_GNEV_u1 == <<"u0413", "u041d", "u0415", "u0412", "_", "u", "1">>
TR_vowel == <<"v", "o", "w", "e", "l">>
TR_Consonant == <<"C", "o", "n", "s", "o", "n", "a", "n", "t">>
TR_consonant == <<"c", "o", "n", "s", "o", "n", "a", "n", "t">>

\* a column of an input file: its header and the field of the row it holds
Col(raw, field) == [raw |-> raw, field |-> field]

\* the layouts of the input files of the full run
Layouts ==
    { <<Col(RAW_File_Name, "file"), Col(RAW_Transcription, "trans"),
        Col(RAW_Persent_Duration, "percent"), Col(RAW_TotalDur, "total")>>,
      <<Col(RAW_file_name, "file"), Col(RAW_transcription_phonemes, "trans"),
        Col(RAW_percent_duration, "percent"), Col(RAW_duration, "dur")>>,
      <<Col(RAW_FileName, "file"), Col(RAW_Transcription_Phonemes, "trans"),
        Col(RAW_Duration, "dur")>>,
      <<Col(RAW_Emotion, "emo"), Col(RAW_Transcription, "trans"),
        Col(RAW_Percent_Duration, "percent"), Col(RAW_Total_Duration, "total"),
        Col(RAW_Duration, "dur")>>,
      <<Col(RAW_file_name, "file"), Col(RAW_percent_duration, "percent")>>,
      <<Col(RAW_Variant, "var"), Col(RAW_file_name, "file"),
        Col(RAW_transcription, "trans"), Col(RAW_percent_duration, "percent")>>,
      <<Col(RAW_Transcription, "trans"), Col(RAW_Persent_Duration, "percent")>> }

Vowel(file, trans, percent, emo) ==
    [file |-> Text(file), trans |-> Text(trans), percent |-> Num(percent),
     total |-> Num(2), dur |-> Num(1), emo |-> Text(emo), var |-> Text(FILE_u1)]

\* the rows of the input files of the full run
RowSets ==
    { << Vowel(FILE_u2, TR_vowel, 10, EMO_NEUTRAL),
         Vowel(FILE_GNEV_u1, TR_Consonant, 20, EMO_ANGER),
         Vowel(FILE_GNEV_u1, TR_vowel, 70, EMO_ANGER),
         Vowel(FILE_u2, TR_vowel, 20, EMO_NEUTRAL) >>,
      << Vowel(FILE_u1, TR_consonant, 30, EMO_OTHER) >> }

\* the table of a file with the given layout and rows
FileTable(layout, rowset) ==
    [columns |-> [i \in 1..Len(layout) |-> layout[i].raw],
     rows |-> [r \in 1..Len(rowset) |-> [i \in 1..Len(layout) |-> rowset[r][layout[i].field]]]]

\* the three input files of a run: any layout each, and rows
Catalog ==
    {<<FileTable(l1, rs), FileTable(l2, rs), FileTable(l3, rs)>> :
        l1 \in Layouts, l2 \in Layouts, l3 \in Layouts, rs \in RowSets}

-----------------------------------------------------------------------------
(* __main__, with prepare_full_dataframe unfolded into its statements.      *)

\* the order with both tables computed before anything is printed
main_next_compute_first(at) ==
    LET Program == <<"load_rus", "load_bil", "load_kab", "assemble", "overall", "zone",
                     "print_overall", "print_zone", "pivot", "done">>
    IN Program[1 + CHOOSE i \in 1..Len(Program) : Program[i] = at]

\* the statement after statement at
main_next(at) ==
    LET Program == <<"load_rus", "load_bil", "load_kab", "assemble", "overall",
                     "print_overall", "zone", "print_zone", "pivot", "done">>
    IN Program[1 + CHOOSE i \in 1..Len(Program) : Program[i] = at]

Init ==
    /\ pc = "load_rus"
    /\ sources \in Catalog
    /\ rus = None /\ bil = None /\ kab = None
    /\ df_all = None /\ df_z = None /\ df_zz = None
    /\ overall_table = None /\ zone_table = None /\ pivot_summary = None
    /\ out = <<>>
    /\ err = NO_ERROR
    /\ arg_name = None /\ ret_emotion = None

LoadRus ==
    /\ pc = "load_rus"
    /\ rus' = load_variant(sources[1], RUS_LABEL)
    /\ pc' = main_next(pc)
    /\ UNCHANGED <<sources, bil, kab, df_all, df_z, df_zz, overall_table, zone_table,
                   pivot_summary, out, err, arg_name, ret_emotion>>

LoadBil ==
    /\ pc = "load_bil"
    /\ bil' = load_variant(sources[2], BIL_LABEL)
    /\ pc' = main_next(pc)
    /\ UNCHANGED <<sources, rus, kab, df_all, df_z, df_zz, overall_table, zone_table,
                   pivot_summary, out, err, arg_name, ret_emotion>>

LoadKab ==
    /\ pc = "load_kab"
    /\ kab' = load_variant(sources[3], KAB_LABEL)
    /\ pc' = main_next(pc)
    /\ UNCHANGED <<sources, rus, bil, df_all, df_z, df_zz, overall_table, zone_table,
                   pivot_summary, out, err, arg_name, ret_emotion>>

Assemble ==
    /\ pc = "assemble"
    /\ LET r == prepare_full_dataframe(rus, bil, kab)
       IN IF r.err # NO_ERROR
          THEN err' = r.err /\ pc' = "error" /\ UNCHANGED df_all
          ELSE df_all' = r.df /\ pc' = main_next(pc) /\ UNCHANGED err
    /\ UNCHANGED <<sources, rus, bil, kab, df_z, df_zz, overall_table, zone_table,
                   pivot_summary, out, arg_name, ret_emotion>>

ComputeOverall ==
    /\ pc = "overall"
    /\ overall_table' = compute_overall_table(df_all)
    /\ pc' = main_next(pc)
    /\ UNCHANGED <<sources, rus, bil, kab, df_all, df_z, df_zz, zone_table,
                   pivot_summary, out, err, arg_name, ret_emotion>>

PrintOverall ==
    /\ pc = "print_overall"
    /\ out' = Append(out, [title |-> "overall", table |-> overall_table])
    /\ pc' = main_next(pc)
    /\ UNCHANGED <<sources, rus, bil, kab, df_all, df_z, df_zz, overall_table, zone_table,
                   pivot_summary, err, arg_name, ret_emotion>>

ComputeZoneTable ==
    /\ pc = "zone"
    /\ LET r == assign_zones(df_all)
       IN /\ df_all' = assign_zones_argument(df_all)
          /\ IF r.err # NO_ERROR
             THEN err' = r.err /\ pc' = "error" /\ UNCHANGED <<df_z, zone_table>>
             ELSE /\ df_z' = r.df
                  /\ zone_table' = zone_table_of(r.df)
                  /\ pc' = main_next(pc)
                  /\ UNCHANGED err
    /\ UNCHANGED <<sources, rus, bil, kab, df_zz, overall_table,
                   pivot_summary, out, arg_name, ret_emotion>>

PrintZone ==
    /\ pc = "print_zone"
    /\ out' = Append(out, [title |-> "zone", table |-> zone_table])
    /\ pc' = main_next(pc)
    /\ UNCHANGED <<sources, rus, bil, kab, df_all, df_z, df_zz, overall_table, zone_table,
                   pivot_summary, err, arg_name, ret_emotion>>

PivotSummary ==
    /\ pc = "pivot"
    /\ pivot_summary' = pivot_table(zone_table)
    /\ out' = Append(out, [title |-> "pivot", table |-> pivot_table(zone_table)])
    /\ pc' = main_next(pc)
    /\ UNCHANGED <<sources, rus, bil, kab, df_all, df_z, df_zz, overall_table, zone_table,
                   err, arg_name, ret_emotion>>

Next ==
    \/ LoadRus \/ LoadBil \/ LoadKab \/ Assemble
    \/ ComputeOverall \/ PrintOverall \/ ComputeZoneTable \/ PrintZone \/ PivotSummary

Spec == Init /\ [][Next]_vars

-----------------------------------------------------------------------------
(* load_variant on its own: the three loads of prepare_full_dataframe, on    *)
(* files with any headers, those that normalise to the same name included.  *)

MaxCols == 3

\* the headers a file may have
RawNames ==
    <<RAW_percent_duration, RAW_Percent_Duration, RAW_Persent_Duration, RAW_PERSENT_DURATION,
      RAW_Total_Duration, RAW_TotalDur, RAW_totaldur,
      RAW_transcription_phonemes, RAW_Transcription_Phonemes, RAW_Transcription, RAW_transcription,
      RAW_file_name, RAW_File_Name, RAW_tab_file_name, RAW_FileName,
      RAW_Emotion, RAW_Variant>>

\* a file with the headers RawNames[i] for i in S, in that order, and two rows
\* of distinct numbers
HeaderTable(S) ==
    LET F[k \in 0..Len(RawNames)] ==
            IF k = 0 THEN <<>> ELSE IF k \in S THEN Append(F[k - 1], k) ELSE F[k - 1]
        ix == F[Len(RawNames)]
    IN [columns |-> [i \in 1..Len(ix) |-> RawNames[ix[i]]],
        rows |-> [r \in 1..2 |-> [i \in 1..Len(ix) |-> Num(100 * r + ix[i])]]]

HeaderSets == {S \in SUBSET (1..Len(RawNames)) : Cardinality(S) <= MaxCols}

InitLoad ==
    /\ pc = "load_rus"
    /\ \E S1 \in HeaderSets, S2 \in {{1, 3}, {6, 13, 17}} :
          sources = <<HeaderTable(S1), HeaderTable(S2), HeaderTable(S1 \cup S2)>>
    /\ rus = None /\ bil = None /\ kab = None
    /\ df_all = None /\ df_z = None /\ df_zz = None
    /\ overall_table = None /\ zone_table = None /\ pivot_summary = None
    /\ out = <<>>
    /\ err = NO_ERROR
    /\ arg_name = None /\ ret_emotion = None

NextLoad == LoadRus \/ LoadBil \/ LoadKab

SpecLoad == InitLoad /\ [][NextLoad]_vars

-----------------------------------------------------------------------------
(* detect_emotion on its own, on names put together from fragments.         *)

MaxFragments == 3

FRAG_GNEV == <<"u0413", "u041d", "u0415", "u0412">>
FRAG_gnev == <<"u0433", "u043d", "u0435", "u0432">>
FRAG_Radost == <<"u0420", "u0430", "u0434", "u043e", "u0441", "u0442">>
FRAG_NEJTR == <<"u041d", "u0415", "u0419", "u0422", "u0420">>
FRAG_Neutr == <<"N", "e", "u", "t", "r">>
FRAG_Gne == <<"u0413", "u043d", "u0435">>
FRAG_v == <<"u0432">>
FRAG_underscore == <<"_">>
FRAG_wav == <<".", "w", "a", "v">>
FRAG_rados == <<"u0440", "u0430", "u0434", "u043e", "u0441">>
FRAG_t == <<"u0442">>

Fragments ==
    {FRAG_GNEV, FRAG_gnev, FRAG_Radost, FRAG_NEJTR, FRAG_Neutr, FRAG_Gne, FRAG_v,
     FRAG_underscore, FRAG_wav, FRAG_rados, FRAG_t, FILE_u1}

FragmentSeqs == UNION {[1..n -> Fragments] : n \in 0..MaxFragments}

InitEmotion ==
    /\ pc = "detect_emotion"
    /\ arg_name \in {Text(Concat(fs)) : fs \in FragmentSeqs} \cup {NaN}
    /\ ret_emotion = None
    /\ sources = None
    /\ rus = None /\ bil = None /\ kab = None
    /\ df_all = None /\ df_z = None /\ df_zz = None
    /\ overall_table = None /\ zone_table = None /\ pivot_summary = None
    /\ out = <<>>
    /\ err = NO_ERROR

DetectEmotion ==
    /\ pc = "detect_emotion"
    /\ ret_emotion' = Text(detect_emotion(arg_name))
    /\ pc' = "done"
    /\ UNCHANGED <<sources, rus, bil, kab, df_all, df_z, df_zz, overall_table, zone_table,
                   pivot_summary, out, err, arg_name>>

NextEmotion == DetectEmotion

SpecEmotion == InitEmotion /\ [][NextEmotion]_vars

-----------------------------------------------------------------------------
(* assign_zones on its own, and on its own output.                          *)

MaxRows == 10
MaxMinor == 2

\* the utterance most rows belong to, and the keys of the other rows: another
\* utterance, and one whose file name is missing
MainKey == [variant |-> Text(RUS_LABEL), emotion |-> Text(EMO_NEUTRAL), file_name |-> Text(FILE_u1)]
MinorKeys ==
    { [variant |-> Text(KAB_LABEL), emotion |-> Text(EMO_ANGER), file_name |-> Text(FILE_GNEV_u1)],
      [variant |-> Text(RUS_LABEL), emotion |-> Text(EMO_NEUTRAL), file_name |-> NaN] }

\* a frame as the assembler returns it, with the given key in each row
ZoneFrame(keys) ==
    [columns |-> <<file_name, percent_duration, variant, emotion>>,
     rows |-> [r \in 1..Len(keys) |->
                 [idx |-> r - 1,
                  cells |-> <<keys[r].file_name, Num(10), keys[r].variant, keys[r].emotion>>]]]

ZoneInputs ==
    UNION { UNION { { ZoneFrame([r \in 1..n |-> IF r \in S THEN f[r] ELSE MainKey])
                      : f \in [S -> MinorKeys] }
                    : S \in {S \in SUBSET (1..n) : Cardinality(S) <= MaxMinor} }
            : n \in 0..MaxRows }

InitZones ==
    /\ pc = "assign_zones"
    /\ df_all \in ZoneInputs
    /\ df_z = None /\ df_zz = None
    /\ sources = None
    /\ rus = None /\ bil = None /\ kab = None
    /\ overall_table = None /\ zone_table = None /\ pivot_summary = None
    /\ out = <<>>
    /\ err = NO_ERROR
    /\ arg_name = None /\ ret_emotion = None

AssignZones ==
    /\ pc = "assign_zones"
    /\ LET r == assign_zones(df_all)
       IN /\ df_all' = assign_zones_argument(df_all)
          /\ IF r.err # NO_ERROR
             THEN err' = r.err /\ pc' = "error" /\ UNCHANGED df_z
             ELSE df_z' = r.df /\ pc' = "assign_zones_again" /\ UNCHANGED err
    /\ UNCHANGED <<sources, rus, bil, kab, df_zz, overall_table, zone_table,
                   pivot_summary, out, arg_name, ret_emotion>>

AssignZonesAgain ==
    /\ pc = "assign_zones_again"
    /\ LET r == assign_zones(df_z)
       IN /\ df_z' = assign_zones_argument(df_z)
          /\ IF r.err # NO_ERROR
             THEN err' = r.err /\ pc' = "error" /\ UNCHANGED df_zz
             ELSE df_zz' = r.df /\ pc' = "done" /\ UNCHANGED err
    /\ UNCHANGED <<sources, rus, bil, kab, df_all, overall_table, zone_table,
                   pivot_summary, out, arg_name, ret_emotion>>

NextZones == AssignZones \/ AssignZonesAgain

SpecZones == InitZones /\ [][NextZones]_vars

-----------------------------------------------------------------------------
(* Properties.                                                              *)

\* the errors of the assembler, and all the errors for a missing column
AssemblerErrors == {ERR_TRANSCRIPTION, ERR_EMOTION, ERR_PERCENT}
SchemaErrors == AssemblerErrors \cup {ERR_FILE_NAME}

\* prepare_full_dataframe has returned or raised
Prepared == pc \notin {"load_rus", "load_bil", "load_kab", "assemble"}

\* C1, as stated: whenever a run has aborted with one of the four errors for a
\* missing column, nothing has been printed.
C1_NothingPrintedBeforeSchemaError == err \in SchemaErrors => out = <<>>

\* C1, amended: an error of the assembler (no transcription_phonemes, neither
\* emotion nor file_name, no percent_duration) aborts the run with nothing
\* printed; the error of assign_zones for a missing file_name aborts it after
\* the overall table, and only the overall table, has been printed.
C1_AssemblerErrorsBeforeOutput ==
    /\ err \in AssemblerErrors => out = <<>>
    /\ err = ERR_FILE_NAME =>
          /\ Len(out) = 1
          /\ out[1] = [title |-> "overall", table |-> overall_table]
          /\ zone_table = None

\* a run that printed the overall table and then failed in assign_zones
C1_Witness == err = ERR_FILE_NAME /\ Len(out) = 1 /\ pc = "error"

\* the zone of index i in a group of n rows, by ranges of positions
Min(a, b) == IF a <= b THEN a ELSE b
Max(a, b) == IF a >= b THEN a ELSE b
ZoneByPosition(n, i) ==
    IF i \in 1..Min(3, n) THEN ZONE_START
    ELSE IF i \in Max(4, n - 2)..n THEN ZONE_END
    ELSE ZONE_MIDDLE

\* the rows of df whose key is k, and the keys of the groups of df: the keys
\* with no missing component
GroupRows(df, k) == {r \in 1..Len(df.rows) : Keys(df)[r] = k}
GroupKeys(df) == {k \in Range(Keys(df)) : ~HasNaNKey(k)}

\* C2: in the result of assign_zones, a row of index i in a group of n rows is
\* start when i is in 1..min(3, n), end when i is in max(4, n - 2)..n, and
\* middle otherwise.
C2_ZoneRule ==
    df_z # None =>
        \A k \in GroupKeys(df_z) :
            LET n == Cardinality(GroupRows(df_z, k))
            IN \A r \in GroupRows(df_z, k) :
                  /\ Column(df_z, v_index)[r].n \in 1..n
                  /\ Column(df_z, zone)[r] = Text(ZoneByPosition(n, Column(df_z, v_index)[r].n))

\* a group of ten rows: 1..3 start, 4..7 middle, 8..10 end
C2_Witness ==
    /\ df_z # None
    /\ \E k \in GroupKeys(df_z) :
          /\ Cardinality(GroupRows(df_z, k)) = 10
          /\ \A r \in GroupRows(df_z, k) :
                LET i == Column(df_z, v_index)[r].n
                    z == Column(df_z, zone)[r]
                IN /\ i \in {1, 2, 3} => z = Text(ZONE_START)
                   /\ i \in {4, 5, 6, 7} => z = Text(ZONE_MIDDLE)
                   /\ i \in {8, 9, 10} => z = Text(ZONE_END)

\* C3: in the result of assign_zones, the v_index values of a group of n rows
\* are exactly 1..n, each once, and the count the zone rule uses is n.
C3_IndexContiguous ==
    df_z # None =>
        \A k \in GroupKeys(df_z) :
            LET rows == GroupRows(df_z, k)
                n == Cardinality(rows)
            IN /\ {Column(df_z, v_index)[r] : r \in rows} = {Num(i) : i \in 1..n}
               /\ \A r \in rows : transform_max(df_z)[r] = Num(n)

\* the index labels of the rows of a frame, in row order
Labels(df) == [r \in 1..Len(df.rows) |-> df.rows[r].idx]

\* a group of at least four rows whose rows were not together in the input
C3_Witness ==
    /\ df_z # None
    /\ Labels(df_z) # Labels(df_all)
    /\ \E k \in GroupKeys(df_z) : Cardinality(GroupRows(df_z, k)) >= 4
    /\ Cardinality(GroupKeys(df_z)) >= 2

\* some loaded file has no percent_duration column; none has
SomeSourceLacksPercent == \E f \in {rus, bil, kab} : ~HasColumn(f, percent_duration)
AllSourcesLackPercent == \A f \in {rus, bil, kab} : ~HasColumn(f, percent_duration)

\* the assembler failed and no aggregation ran
AssemblerFailed ==
    /\ err \in AssemblerErrors
    /\ df_all = None /\ overall_table = None /\ zone_table = None

\* C4, as stated: when one of the three loaded files has no percent_duration
\* column, the assembler fails and no aggregation runs.
C4_AnySourceWithoutPercentFails == (Prepared /\ SomeSourceLacksPercent) => AssemblerFailed

\* the loaded frame a row of the concatenation came from, by its index label
FrameOf(i) ==
    IF i < Len(rus.rows) THEN rus
    ELSE IF i < Len(rus.rows) + Len(bil.rows) THEN bil
    ELSE kab

\* C4, amended: when none of the three loaded files has a percent_duration
\* column, the assembler fails and no aggregation runs; when one of them has,
\* the percent_duration check passes, and in the assembled frame the rows of a
\* file without the column have a missing percent_duration.
C4_AllSourcesWithoutPercentFail ==
    /\ (Prepared /\ AllSourcesLackPercent) => AssemblerFailed
    /\ (Prepared /\ ~AllSourcesLackPercent) => err # ERR_PERCENT
    /\ df_all # None =>
          \A r \in 1..Len(df_all.rows) :
             ~HasColumn(FrameOf(df_all.rows[r].idx), percent_duration)
                => Column(df_all, percent_duration)[r] = NaN

\* the run failed on the percent_duration check itself
C4_Witness == Prepared /\ AllSourcesLackPercent /\ err = ERR_PERCENT

\* C5: in the assembled frame dur_s is percent_duration / 100 * total_duration
\* in every row when there is a total_duration column, else duration in every
\* row when there is a duration column, else missing in every row; the
\* assembler raised nothing.
C5_DurationRule ==
    df_all # None =>
        /\ err \notin AssemblerErrors
        /\ HasColumn(df_all, dur_s)
        /\ \A r \in 1..Len(df_all.rows) :
              Column(df_all, dur_s)[r] =
                 IF HasColumn(df_all, total_duration)
                 THEN CellMul(CellDiv(Column(df_all, percent_duration)[r], Num(100)),
                              Column(df_all, total_duration)[r])
                 ELSE IF HasColumn(df_all, duration)
                 THEN Column(df_all, duration)[r]
                 ELSE NaN

\* both columns are there, and a row has a dur_s that is not its duration
C5_Witness ==
    /\ df_all # None
    /\ HasColumn(df_all, total_duration) /\ HasColumn(df_all, duration)
    /\ \E r \in 1..Len(df_all.rows) :
          /\ Column(df_all, duration)[r] # NaN
          /\ Column(df_all, dur_s)[r] # NaN
          /\ Column(df_all, dur_s)[r] # Column(df_all, duration)[r]

\* the v_index and the zone of the row labelled i
IndexAndZone(df, i) ==
    LET r == CHOOSE r \in 1..Len(df.rows) : df.rows[r].idx = i
    IN <<Column(df, v_index)[r], Column(df, zone)[r]>>

\* C6: assign_zones on its own output gives every record the v_index and the
\* zone it had.
C6_Idempotent ==
    df_zz # None =>
        /\ Range(Labels(df_zz)) = Range(Labels(df_z))
        /\ \A i \in Range(Labels(df_z)) : IndexAndZone(df_zz, i) = IndexAndZone(df_z, i)

\* a second run on a frame with a group of four rows or more, a second group
\* and a row whose key is incomplete, the input not sorted
C6_Witness ==
    /\ df_zz # None
    /\ Labels(df_z) # Labels(df_all)
    /\ \E k \in GroupKeys(df_z) : Cardinality(GroupRows(df_z, k)) >= 4
    /\ \E r \in 1..Len(df_z.rows) : HasNaNKey(Keys(df_z)[r])

\* sub occurs in the name once lower-cased
Occurs(sub, c) ==
    LET s == Str(c)
    IN \E i \in 0..Len(s) :
          /\ i + Len(sub) <= Len(s)
          /\ \A k \in 1..Len(sub) : LowerChar(s[i + k]) = sub[k]

\* C7: the result of detect_emotion is anger when "gnev" occurs in the
\* lower-cased name; else joy when "radost" occurs; else neutral when "nejtr"
\* or Latin "neutr" occurs; else other.
C7_FirstMatchWins ==
    ret_emotion # None =>
        LET anger == Occurs(sub_gnev, arg_name)
            joy == Occurs(sub_radost, arg_name)
            neutral == Occurs(sub_nejtr, arg_name) \/ Occurs(sub_neutr, arg_name)
        IN /\ ret_emotion \in {Text(EMO_ANGER), Text(EMO_JOY), Text(EMO_NEUTRAL), Text(EMO_OTHER)}
           /\ ret_emotion = Text(EMO_ANGER) <=> anger
           /\ ret_emotion = Text(EMO_JOY) <=> ~anger /\ joy
           /\ ret_emotion = Text(EMO_NEUTRAL) <=> ~anger /\ ~joy /\ neutral
           /\ ret_emotion = Text(EMO_OTHER) <=> ~anger /\ ~joy /\ ~neutral

\* a name in which anger occurs in upper case after joy and neutral
C7_Witness ==
    /\ ret_emotion = Text(EMO_ANGER)
    /\ arg_name = Text(FRAG_Neutr \o FRAG_Radost \o FRAG_GNEV)

\* the label of the file a row of the concatenation came from, by its index label
LabelOf(i) ==
    IF i < Len(rus.rows) THEN RUS_LABEL
    ELSE IF i < Len(rus.rows) + Len(bil.rows) THEN BIL_LABEL
    ELSE KAB_LABEL

\* C8: every row of a loaded frame has the label of its file as variant, and so
\* has every row of the assembled frame and of the zone-assigned frame.
C8_VariantIsSourceLabel ==
    /\ rus # None => \A r \in 1..Len(rus.rows) : Column(rus, variant)[r] = Text(RUS_LABEL)
    /\ bil # None => \A r \in 1..Len(bil.rows) : Column(bil, variant)[r] = Text(BIL_LABEL)
    /\ kab # None => \A r \in 1..Len(kab.rows) : Column(kab, variant)[r] = Text(KAB_LABEL)
    /\ df_all # None =>
          \A r \in 1..Len(df_all.rows) :
             Column(df_all, variant)[r] = Text(LabelOf(df_all.rows[r].idx))
    /\ df_z # None =>
          \A r \in 1..Len(df_z.rows) :
             Column(df_z, variant)[r] = Text(LabelOf(df_z.rows[r].idx))

\* a zone-assigned frame with rows of all three files, one of which came with a
\* Variant column of its own
C8_Witness ==
    /\ df_z # None
    /\ {Column(df_z, variant)[r] : r \in 1..Len(df_z.rows)}
          = {Text(RUS_LABEL), Text(BIL_LABEL), Text(KAB_LABEL)}
    /\ \E i \in 1..3 : HasColumn(NormalizeColumns(read_excel(sources[i])), variant)

\* the alias rewrites of load_variant
Aliases ==
    { <<persent_duration, percent_duration>>, <<totaldur, total_duration>>,
      <<transcription, transcription_phonemes>>, <<filename, file_name>> }

\* the number of columns of df named c
CountColumns(df, c) == Cardinality({i \in 1..Len(df.columns) : df.columns[i] = c})

\* C9 for the frame loaded from one file
AliasGuarded(table, loaded) ==
    LET norm == NormalizeColumns(read_excel(table))
    IN \A a \in Aliases :
          /\ (\E i \in 1..Len(norm.columns) : norm.columns[i] = a[1] /\ loaded.columns[i] # a[1])
                => ~HasColumn(norm, a[2])
          /\ HasColumn(norm, a[2]) =>
                /\ \A i \in 1..Len(norm.columns) :
                      norm.columns[i] \in {a[1], a[2]} =>
                         /\ loaded.columns[i] = norm.columns[i]
                         /\ \A r \in 1..Len(table.rows) :
                               loaded.rows[r].cells[i] = table.rows[r][i]
                /\ CountColumns(loaded, a[2]) = CountColumns(norm, a[2])

\* C9: an alias column is renamed only when no column has the canonical name
\* after normalisation; when one has, the canonical column and the alias column
\* keep their names and their values, and no further column gets the canonical
\* name.
C9_AliasOnlyWhenCanonicalAbsent ==
    /\ rus # None => AliasGuarded(sources[1], rus)
    /\ bil # None => AliasGuarded(sources[2], bil)
    /\ kab # None => AliasGuarded(sources[3], kab)

\* a loaded file whose headers normalise to a canonical name and to its alias
C9_Witness ==
    /\ rus # None
    /\ sources[1].columns # NormalizeColumns(read_excel(sources[1])).columns
    /\ HasColumn(rus, percent_duration) /\ HasColumn(rus, persent_duration)
    /\ CountColumns(NormalizeColumns(read_excel(sources[1])), persent_duration) = 2

\* frame b holds the records of frame a, each once, with the cells they have in a
SameRecords(a, b) ==
    /\ Len(b.rows) = Len(a.rows)
    /\ \A ra \in 1..Len(a.rows) :
          \E rb \in 1..Len(b.rows) :
             /\ b.rows[rb].idx = a.rows[ra].idx
             /\ \A i \in 1..Len(a.columns) : b.rows[rb].cells[i] = a.rows[ra].cells[i]
             /\ \A rc \in 1..Len(b.rows) : b.rows[rc].idx = a.rows[ra].idx => rc = rb

\* C10: the call of assign_zones leaves the frame it is given as it was, with no
\* v_index and no zone column, whether it returns or raises; the frame it
\* returns holds the same records, none dropped and none twice.
C10_InputNotMutated ==
    [][pc = "zone" =>
         /\ df_all' = df_all
         /\ ~HasColumn(df_all', v_index) /\ ~HasColumn(df_all', zone)
         /\ pc' # "error" => SameRecords(df_all, df_z')]_vars

\* assign_zones has returned a frame in another row order than its input
C10_Witness ==
    /\ df_z # None /\ pc = "print_zone"
    /\ Labels(df_z) # Labels(df_all)
    /\ HasColumn(df_z, zone) /\ ~HasColumn(df_all, zone)

====
